---- MODULE Spec2Model ----
(***************************************************************************)
(* Model of server.py: the three MCP tool handlers review_pr, describe_pr  *)
(* and find_bugs, the process-wide settings they write, and the regular    *)
(* expression find_bugs applies to the agent's text.                       *)
(*                                                                         *)
(* A Python string is a sequence of tokens (each token a piece of text);   *)
(* concatenation is \o.  The token "#" is the single character '#', so a   *)
(* heading such as "## Bugs" is <<"#", "#", " Bugs">>.                     *)
(*                                                                         *)
(* The handlers are coroutines on one event loop: a handler runs without   *)
(* interruption from one await to the next, so there is one action per     *)
(* stretch of code between two awaits (and one per way it can end).        *)
(***************************************************************************)
EXTENDS Naturals, Sequences, FiniteSets

VARIABLES
    settings,   \* get_settings(): the process-wide pr_reviewer.* keys
    shadow,     \* history: what settings would be had no find_bugs ever run
    races,      \* history: the kinds of interference seen so far
    pc,         \* pc[r]: the await at which request r is suspended
    kind,       \* kind[r]: the tool that request r called
    trace,      \* trace[r]: progress reports and agent calls of r, in order
    result,     \* result[r]: what agent.handle_request returned to r
    failedAt,   \* failedAt[r]: the step of r that raised and the message
    ret,        \* ret[r]: how the call ended for the caller
    text,       \* the agent text given to the section extraction
    out         \* what find_bugs' result transformation made of text

vars == <<settings, shadow, races, pc, kind, trace, result, failedAt, ret, text, out>>

handlerVars == <<settings, shadow, races, pc, kind, trace, result, failedAt, ret>>

\* ------------------------------------------------------------------ bounds

\* Number of requests that may be in flight at once.
NumRequests == 2

\* Longest agent text (in tokens) given to the section extraction.
MaxLen == 6

Requests == 1..NumRequests

Kinds == {"review_pr", "describe_pr", "find_bugs"}

\* Messages of the exceptions a step may raise.
Msgs == {"boom", "timeout"}

\* ---------------------------------------------------------------- settings

Directive ==
    "Focus exclusively on identifying bugs, logic errors, security vulnerabilities, and potential runtime issues. Skip style and maintainability concerns."

\* The settings.set calls of each handler before the agent call, in order.
ReviewWrites ==
    << <<"enable_review_labels_security", FALSE>>,
       <<"enable_review_labels_effort", FALSE>> >>

DescribeWrites == << >>

\* Mutant: find_bugs without its require_security_review write.
FindBugsWritesNoSecurity ==
    << <<"enable_review_labels_security", FALSE>>,
       <<"enable_review_labels_effort", FALSE>>,
       <<"require_score_review", FALSE>>,
       <<"require_tests_review", FALSE>>,
       <<"require_focused_review", FALSE>>,
       <<"extra_instructions", Directive>> >>

FindBugsWrites ==
    << <<"enable_review_labels_security", FALSE>>,
       <<"enable_review_labels_effort", FALSE>>,
       <<"require_score_review", FALSE>>,
       <<"require_tests_review", FALSE>>,
       <<"require_security_review", TRUE>>,
       <<"require_focused_review", FALSE>>,
       <<"extra_instructions", Directive>> >>

\* The settings.set calls of find_bugs after the agent call.
ResetWrites ==
    << <<"require_security_review", TRUE>>,
       <<"extra_instructions", "">> >>

Writes(k) ==
    IF k = "review_pr" THEN ReviewWrites
    ELSE IF k = "find_bugs" THEN FindBugsWrites
    ELSE DescribeWrites

\* get_settings().set(key, value), for the first n writes of ws.
RECURSIVE ApplyWrites(_, _, _)
ApplyWrites(s, ws, n) ==
    IF n = 0 THEN s
    ELSE [ApplyWrites(s, ws, n - 1) EXCEPT ![ws[n][1]] = ws[n][2]]

\* The settings as the process starts serving: the flags as the deployment's
\* configuration has them, and no extra instructions (what find_bugs calls
\* the default).
InitialSettings ==
    { [enable_review_labels_security |-> a,
       enable_review_labels_effort |-> b,
       require_score_review |-> c,
       require_tests_review |-> d,
       require_security_review |-> f,
       require_focused_review |-> e,
       extra_instructions |-> ""] : a, b, c, d, e, f \in BOOLEAN }

\* The starting settings of the concurrent specification: the five flags
\* that find_bugs switches off all on, require_security_review either way.
ConcurrentSettings ==
    { s \in InitialSettings :
        /\ s.enable_review_labels_security /\ s.enable_review_labels_effort
        /\ s.require_score_review /\ s.require_tests_review
        /\ s.require_focused_review }

\* ------------------------------------------------------------------ strings

ReviewFallback == <<"Review completed, but no results were returned.">>

DescribeFallback == <<"Description generated, but no results were returned.">>

FindBugsFallback == <<"Bug scan completed, but no results were returned.">>

Fallback(k) ==
    IF k = "review_pr" THEN ReviewFallback
    ELSE IF k = "describe_pr" THEN DescribeFallback
    ELSE FindBugsFallback

ErrorPrefix(k) ==
    IF k = "review_pr" THEN "Error reviewing PR: "
    ELSE IF k = "describe_pr" THEN "Error describing PR: "
    ELSE "Error scanning PR for bugs: "

\* Mutant: the error string without the exception's message.
ErrorStringBare(k, m) == <<ErrorPrefix(k)>>

\* f"Error ...: {str(e)}" for an exception e with message m.
ErrorString(k, m) == <<ErrorPrefix(k), m>>

\* The command string each handler passes to agent.handle_request.
Command(k) == IF k = "describe_pr" THEN "/describe" ELSE "/review"

ScanHeader == "# Bug Scan Results\n\n"

NoBugsText ==
    <<ScanHeader,
      "No critical bugs or issues were identified in the scan.\n\n",
      "Full review content:\n\n">>

\* What agent.handle_request can hand back: None, or a string.
PyNone == [tag |-> "None", val |-> << >>]

PyStr(t) == [tag |-> "str", val |-> t]

\* Mutant: "is not None" in place of the truth value.
TruthyNotNone(res) == res.tag = "str"

\* Python's truth value of a result: None and "" are false.
Truthy(res) == res.tag = "str" /\ res.val # << >>

\* ------------------------------------------------- the section extraction

\* The alternatives of the pattern's group, in the order it lists them.
Headings ==
    << <<"#", "#", " Bugs">>,
       <<"#", "#", "#", " Bugs">>,
       <<"#", "#", " Possible Issues">>,
       <<"#", "#", "#", " Possible Issues">>,
       <<"#", "#", " Security Issues">>,
       <<"#", "#", "#", " Security Issues">> >>

\* The literal h stands in t at position i.
LiteralAt(t, i, h) ==
    /\ i + Len(h) - 1 <= Len(t)
    /\ \A j \in 1..Len(h) : t[i + j - 1] = h[j]

\* The first alternative of the group that matches at i (0: none does).
GroupAt(t, i) ==
    IF \E a \in 1..Len(Headings) : LiteralAt(t, i, Headings[a])
    THEN CHOOSE a \in 1..Len(Headings) :
            /\ LiteralAt(t, i, Headings[a])
            /\ \A b \in 1..(a - 1) : ~LiteralAt(t, i, Headings[b])
    ELSE 0

\* The lookahead (?=##|\Z) holds at position j.
LookaheadAt(t, j) ==
    \/ j = Len(t) + 1
    \/ j + 1 <= Len(t) /\ t[j] = "#" /\ t[j + 1] = "#"

\* Where the match that starts at i with a group of length n ends: the lazy
\* .*? (DOTALL) takes as little as lets the lookahead hold.
MatchEnd(t, i, n) ==
    CHOOSE j \in (i + n)..(Len(t) + 1) :
        /\ LookaheadAt(t, j)
        /\ \A j2 \in (i + n)..(j - 1) : ~LookaheadAt(t, j2)

\* The successive non-overlapping matches of the pattern in t from position
\* i on, leftmost first: each with its group and the whole text it matched.
RECURSIVE Matches(_, _)
Matches(t, i) ==
    IF i > Len(t) THEN << >>
    ELSE IF GroupAt(t, i) = 0 THEN Matches(t, i + 1)
    ELSE LET g == Headings[GroupAt(t, i)]
             e == MatchEnd(t, i, Len(g))
         IN  << [group |-> g, whole |-> SubSeq(t, i, e - 1)] >> \o Matches(t, e)

\* re.findall(pattern, t, re.DOTALL): the pattern has one group, so findall
\* yields each match's group.
FindAll(t) ==
    LET ms == Matches(t, 1) IN [n \in 1..Len(ms) |-> ms[n].group]

\* sep.join(parts)
RECURSIVE Join(_, _)
Join(parts, sep) ==
    IF parts = << >> THEN << >>
    ELSE IF Len(parts) = 1 THEN parts[1]
    ELSE parts[1] \o <<sep>> \o Join(Tail(parts), sep)

\* find_bugs' transformation of a non-empty agent text.
BugScan(t) ==
    LET bug_sections == FindAll(t)
    IN  IF bug_sections # << >>
        THEN <<ScanHeader>> \o Join(bug_sections, "\n\n")
        ELSE NoBugsText \o t

\* The string a handler returns for the agent's result.
HandlerResult(k, res) ==
    IF ~Truthy(res) THEN Fallback(k)
    ELSE IF k = "find_bugs" THEN BugScan(res.val)
    ELSE res.val

\* ------------------------------------------------------------- the handlers

NoResult == [tag |-> "unset", val |-> << >>]

NoRet == [tag |-> "pending", val |-> << >>]

\* The call returned the string v to the caller.
Returned(v) == [tag |-> "string", val |-> v]

\* The call ended with an exception of message m reaching the caller.
Propagated(m) == [tag |-> "exception", val |-> <<m>>]

\* The entries of a request's trace.
Progress0 == <<"report_progress", 0, 1>>

Progress1 == <<"report_progress", 1, 1>>

HandleRequest(k) == <<"handle_request", Command(k)>>

InFlight(r) == pc[r] \notin {"idle", "done"}

\* No call has ended without its caller having received the outcome: a
\* handler's return (or exception) reaches the awaiting caller in the same
\* step of the event loop, before any other coroutine runs.
Delivered == \A q \in Requests : pc[q] # "done"

\* The interference visible in a state: a find_bugs agent call running
\* without its directive, and a review_pr agent call running under the
\* directive of a find_bugs whose agent call is running too.
RacesIn(p, k, s) ==
    { "stale" : r \in { q \in Requests :
                        /\ k[q] = "find_bugs" /\ p[q] = "agent"
                        /\ s.extra_instructions # Directive } }
    \cup
    { "foreign" : r \in { q \in Requests :
                          /\ k[q] = "review_pr" /\ p[q] = "agent"
                          /\ s.extra_instructions = Directive
                          /\ \E q2 \in Requests \ {q} :
                                k[q2] = "find_bugs" /\ p[q2] = "agent" } }

Observe == races' = races \cup RacesIn(pc', kind', settings')

\* No step of the call raised.
NoFailure == [step |-> "", msg |-> ""]

\* Request r ends: the caller gets e (f: the step that raised, if one did).
End(r, e, f) ==
    /\ pc' = [pc EXCEPT ![r] = "done"]
    /\ ret' = [ret EXCEPT ![r] = e]
    /\ failedAt' = [failedAt EXCEPT ![r] = f]

\* Step st raised an exception of message m.
Failure(st, m) == [step |-> st, msg |-> m]

\* No request is being served.
Idle ==
    /\ shadow = settings
    /\ races = {}
    /\ pc = [r \in Requests |-> "idle"]
    /\ kind = [r \in Requests |-> "idle"]
    /\ trace = [r \in Requests |-> << >>]
    /\ result = [r \in Requests |-> NoResult]
    /\ failedAt = [r \in Requests |-> NoFailure]
    /\ ret = [r \in Requests |-> NoRet]
    /\ text = << >>
    /\ out = NoRet

Init ==
    /\ settings \in ConcurrentSettings
    /\ Idle

\* A client calls tool k: the handler starts and awaits ctx.info(...).
Call(r, k) ==
    /\ Delivered
    /\ pc[r] = "idle"
    /\ pc' = [pc EXCEPT ![r] = "info"]
    /\ kind' = [kind EXCEPT ![r] = k]
    /\ UNCHANGED <<settings, shadow, trace, result, failedAt, ret, text, out>>
    /\ Observe

\* ctx.info returned: the handler awaits ctx.report_progress(0, 1).
InfoDone(r) ==
    /\ Delivered
    /\ pc[r] = "info"
    /\ pc' = [pc EXCEPT ![r] = "progress0"]
    /\ UNCHANGED <<settings, shadow, kind, trace, result, failedAt, ret, text, out>>
    /\ Observe

\* ctx.info raised: it stands before the try, nothing catches it.
InfoRaise(r, m) ==
    /\ Delivered
    /\ pc[r] = "info"
    /\ End(r, Propagated(m), Failure("info", m))
    /\ UNCHANGED <<settings, shadow, kind, trace, result, text, out>>
    /\ Observe

\* ctx.report_progress(0, 1) raised: it stands before the try as well.
Progress0Raise(r, m) ==
    /\ Delivered
    /\ pc[r] = "progress0"
    /\ End(r, Propagated(m), Failure("progress0", m))
    /\ UNCHANGED <<settings, shadow, kind, trace, result, text, out>>
    /\ Observe

\* report_progress(0, 1) returned; inside the try, PRAgent() raised.
AgentInitRaise(r, m) ==
    /\ Delivered
    /\ pc[r] = "progress0"
    /\ trace' = [trace EXCEPT ![r] = Append(@, Progress0)]
    /\ End(r, Returned(ErrorString(kind[r], m)), Failure("PRAgent", m))
    /\ UNCHANGED <<settings, shadow, kind, result, text, out>>
    /\ Observe

\* report_progress(0, 1) returned; PRAgent() was built; the first n settings
\* writes were made and the next one raised.
SetRaise(r, n, m) ==
    /\ Delivered
    /\ pc[r] = "progress0"
    /\ n < Len(Writes(kind[r]))
    /\ trace' = [trace EXCEPT ![r] = Append(@, Progress0)]
    /\ settings' = ApplyWrites(settings, Writes(kind[r]), n)
    /\ shadow' = IF kind[r] = "find_bugs" THEN shadow
                 ELSE ApplyWrites(shadow, Writes(kind[r]), n)
    /\ End(r, Returned(ErrorString(kind[r], m)), Failure("set", m))
    /\ UNCHANGED <<kind, result, text, out>>
    /\ Observe

\* report_progress(0, 1) returned; PRAgent() was built, the handler's
\* settings writes were made and agent.handle_request was entered, all
\* without an await in between; the handler now awaits the agent.
EnterAgent(r) ==
    /\ Delivered
    /\ pc[r] = "progress0"
    /\ settings' = ApplyWrites(settings, Writes(kind[r]), Len(Writes(kind[r])))
    /\ shadow' = IF kind[r] = "find_bugs" THEN shadow
                 ELSE ApplyWrites(shadow, Writes(kind[r]), Len(Writes(kind[r])))
    /\ trace' = [trace EXCEPT ![r] = @ \o <<Progress0, HandleRequest(kind[r])>>]
    /\ pc' = [pc EXCEPT ![r] = "agent"]
    /\ UNCHANGED <<kind, result, failedAt, ret, text, out>>
    /\ Observe

\* The texts the agent hands back in the handler specifications: the empty
\* string, a text without headings, the two-section example, a four-hash
\* heading.
ExampleText ==
    <<"#", "#", " Bugs", "\nOff-by-one in loop.\n",
      "#", "#", " Style\nUse snake_case.">>

AgentTexts ==
    { << >>,
      <<"All good.">>,
      ExampleText,
      <<"#", "#", "#", "#", " Bugs", "\nOff-by-one in loop.\n">> }

AgentResults == {PyNone} \cup { PyStr(t) : t \in AgentTexts }

\* The exception messages and agent results of the concurrent specification.
ConcurrentMsgs == {"boom"}

ConcurrentResults == {PyNone, PyStr(ExampleText)}

\* Mutant: every handler resets the two keys after its agent call.
AfterAgentAll(k) == ResetWrites

\* The settings writes find_bugs makes once the agent has returned (the
\* other handlers make none).
AfterAgent(k) == IF k = "find_bugs" THEN ResetWrites ELSE << >>

\* agent.handle_request returned res: find_bugs resets its two keys; the
\* handler awaits ctx.report_progress(1, 1).
AgentReturn(r, res) ==
    /\ Delivered
    /\ pc[r] = "agent"
    /\ settings' = ApplyWrites(settings, AfterAgent(kind[r]), Len(AfterAgent(kind[r])))
    /\ result' = [result EXCEPT ![r] = res]
    /\ pc' = [pc EXCEPT ![r] = "progress1"]
    /\ UNCHANGED <<shadow, kind, trace, failedAt, ret, text, out>>
    /\ Observe

\* agent.handle_request raised: the except clause returns the error string
\* (the lines after the agent call are skipped).
AgentRaise(r, m) ==
    /\ Delivered
    /\ pc[r] = "agent"
    /\ End(r, Returned(ErrorString(kind[r], m)), Failure("agent", m))
    /\ UNCHANGED <<settings, shadow, kind, trace, result, text, out>>
    /\ Observe

\* agent.handle_request returned res to find_bugs, the first n reset writes
\* were made and the next one raised.
ResetRaise(r, res, n, m) ==
    /\ Delivered
    /\ pc[r] = "agent"
    /\ n < Len(AfterAgent(kind[r]))
    /\ settings' = ApplyWrites(settings, AfterAgent(kind[r]), n)
    /\ result' = [result EXCEPT ![r] = res]
    /\ End(r, Returned(ErrorString(kind[r], m)), Failure("reset", m))
    /\ UNCHANGED <<shadow, kind, trace, text, out>>
    /\ Observe

\* Mutant: the handler returns without the 1-of-1 report.
Progress1DoneSilent(r) ==
    /\ Delivered
    /\ pc[r] = "progress1"
    /\ End(r, Returned(HandlerResult(kind[r], result[r])), NoFailure)
    /\ UNCHANGED <<settings, shadow, kind, trace, result, text, out>>
    /\ Observe

\* report_progress(1, 1) returned: the handler returns its result string.
Progress1Done(r) ==
    /\ Delivered
    /\ pc[r] = "progress1"
    /\ trace' = [trace EXCEPT ![r] = Append(@, Progress1)]
    /\ End(r, Returned(HandlerResult(kind[r], result[r])), NoFailure)
    /\ UNCHANGED <<settings, shadow, kind, result, text, out>>
    /\ Observe

\* Mutant: report_progress(1, 1) stands after the try.
Progress1RaisePropagates(r, m) ==
    /\ Delivered
    /\ pc[r] = "progress1"
    /\ End(r, Propagated(m), Failure("progress1", m))
    /\ UNCHANGED <<settings, shadow, kind, trace, result, text, out>>
    /\ Observe

\* report_progress(1, 1) raised: it stands inside the try.
Progress1Raise(r, m) ==
    /\ Delivered
    /\ pc[r] = "progress1"
    /\ End(r, Returned(ErrorString(kind[r], m)), Failure("progress1", m))
    /\ UNCHANGED <<settings, shadow, kind, trace, result, text, out>>
    /\ Observe

\* The response (or the exception) has reached the caller: the coroutine is
\* gone.
Release(r) ==
    /\ pc[r] = "done"
    /\ pc' = [pc EXCEPT ![r] = "idle"]
    /\ kind' = [kind EXCEPT ![r] = "idle"]
    /\ trace' = [trace EXCEPT ![r] = << >>]
    /\ result' = [result EXCEPT ![r] = NoResult]
    /\ failedAt' = [failedAt EXCEPT ![r] = NoFailure]
    /\ ret' = [ret EXCEPT ![r] = NoRet]
    /\ UNCHANGED <<settings, shadow, text, out>>
    /\ Observe

\* What a request does once it has been called, with the exception messages
\* drawn from M and the agent's results from R.
Step(r, M, R) ==
    \/ InfoDone(r)
    \/ \E m \in M : InfoRaise(r, m)
    \/ \E m \in M : Progress0Raise(r, m)
    \/ \E m \in M : AgentInitRaise(r, m)
    \/ \E n \in 0..(Len(FindBugsWrites) - 1), m \in M : SetRaise(r, n, m)
    \/ EnterAgent(r)
    \/ \E res \in R : AgentReturn(r, res)
    \/ \E m \in M : AgentRaise(r, m)
    \/ \E res \in R, n \in 0..(Len(ResetWrites) - 1), m \in M : ResetRaise(r, res, n, m)
    \/ Progress1Done(r)
    \/ \E m \in M : Progress1Raise(r, m)
    \/ Release(r)

\* Requests are served concurrently on the one event loop.
Next ==
    \/ \E r \in Requests, k \in Kinds : Call(r, k)
    \/ \E r \in Requests : Step(r, ConcurrentMsgs, ConcurrentResults)

Spec == Init /\ [][Next]_vars

\* Requests arrive one after another: a call starts only when no other
\* request is being served.
SeqCall(r, k) ==
    /\ \A q \in Requests : pc[q] = "idle"
    /\ Call(r, k)

InitSeq ==
    /\ settings \in InitialSettings
    /\ Idle

NextSeq ==
    \/ \E r \in Requests, k \in Kinds : SeqCall(r, k)
    \/ \E r \in Requests : Step(r, Msgs, AgentResults)

SpecSeq == InitSeq /\ [][NextSeq]_vars

\* ------------------------------------------- the extraction on its own

Alphabet ==
    {"#", " Bugs", " bugs", " Possible Issues", " Security Issues",
     "\nOff-by-one in loop.\n", " Style\nUse snake_case."}

\* Every text of at most MaxLen tokens.
Texts == UNION { [1..n -> Alphabet] : n \in 0..MaxLen }

InitExtract ==
    /\ settings \in { s \in ConcurrentSettings : s.require_security_review }
    /\ shadow = settings
    /\ races = {}
    /\ pc = [r \in Requests |-> "idle"]
    /\ kind = [r \in Requests |-> "idle"]
    /\ trace = [r \in Requests |-> << >>]
    /\ result = [r \in Requests |-> NoResult]
    /\ failedAt = [r \in Requests |-> NoFailure]
    /\ ret = [r \in Requests |-> NoRet]
    /\ text \in Texts
    /\ out = NoRet

\* find_bugs' "if result: ... else: ..." on the agent text.
Extract ==
    /\ out = NoRet
    /\ out' = Returned(HandlerResult("find_bugs", PyStr(text)))
    /\ UNCHANGED <<handlerVars, text>>

NextExtract == Extract

SpecExtract == InitExtract /\ [][NextExtract]_vars

\* ------------------------------------------------------------- properties

Done(r) == pc[r] = "done"

\* The steps of a handler that stand inside its try.
TrySteps == {"PRAgent", "set", "agent", "reset", "progress1"}

\* The prefix of each operation's error string, as the specification words it.
ClaimedPrefix ==
    [review_pr |-> "Error reviewing PR: ",
     describe_pr |-> "Error describing PR: ",
     find_bugs |-> "Error scanning PR for bugs: "]

\* C1: when agent.handle_request raises an exception of message m, the
\* handler returns exactly "Error reviewing PR: " + m, "Error describing PR: "
\* + m or "Error scanning PR for bugs: " + m, and does not propagate it.
C1_AgentErrorIsReturned ==
    \A r \in Requests :
        Done(r) /\ failedAt[r].step = "agent" =>
            ret[r] = [tag |-> "string",
                      val |-> <<ClaimedPrefix[kind[r]], failedAt[r].msg>>]

C1_Witness ==
    \E r \in Requests :
        /\ Done(r) /\ kind[r] = "find_bugs"
        /\ failedAt[r] = [step |-> "agent", msg |-> "timeout"]
        /\ ret[r].val = <<"Error scanning PR for bugs: ", "timeout">>

\* C2 as stated: a handler call always ends by returning a string, whatever
\* step raised.
C2_AlwaysReturnsString ==
    \A r \in Requests : Done(r) => ret[r].tag = "string"

\* C2 as amended: an exception raised inside the try (PRAgent(), a settings
\* write, the agent call, a reset write, the 1-of-1 progress report) is
\* returned as the handler's error string; one raised by ctx.info or by the
\* 0-of-1 progress report reaches the caller as an exception; a call in
\* which nothing raised returns a string.
C2_CaughtInsideTryOnly ==
    \A r \in Requests :
        Done(r) =>
            /\ failedAt[r].step \in TrySteps =>
                ret[r] = [tag |-> "string",
                          val |-> <<ClaimedPrefix[kind[r]], failedAt[r].msg>>]
            /\ failedAt[r].step \in {"info", "progress0"} =>
                ret[r] = [tag |-> "exception", val |-> <<failedAt[r].msg>>]
            /\ failedAt[r].step = "" => ret[r].tag = "string"

C2_Witness ==
    \E r \in Requests :
        /\ Done(r) /\ kind[r] = "describe_pr"
        /\ failedAt[r].step = "progress1"
        /\ ret[r] = [tag |-> "string", val |-> <<"Error describing PR: ", "boom">>]

\* Request r enters agent.handle_request in this step.
EntersAgent(r) == pc[r] # "agent" /\ pc'[r] = "agent"

\* C5: at the moment agent.handle_request is entered the calling
\* operation's overrides are in force, whatever the other requests have done:
\* for review_pr the two label flags are off; for find_bugs the two label
\* flags, require_score_review, require_tests_review and
\* require_focused_review are off, require_security_review is on and
\* extra_instructions is the bug-focus directive.
C5_OverridesAtAgentEntry ==
    [][\A r \in Requests :
        EntersAgent(r) =>
            /\ kind'[r] = "review_pr" =>
                /\ settings'.enable_review_labels_security = FALSE
                /\ settings'.enable_review_labels_effort = FALSE
            /\ kind'[r] = "find_bugs" =>
                /\ settings'.enable_review_labels_security = FALSE
                /\ settings'.enable_review_labels_effort = FALSE
                /\ settings'.require_score_review = FALSE
                /\ settings'.require_tests_review = FALSE
                /\ settings'.require_security_review = TRUE
                /\ settings'.require_focused_review = FALSE
                /\ settings'.extra_instructions = Directive]_vars

\* A find_bugs agent call and a review_pr agent call are running at once,
\* the find_bugs having entered last: all seven overrides are in force.
C5_Witness ==
    \E r \in Requests, q \in Requests :
        /\ r # q
        /\ kind[r] = "find_bugs" /\ pc[r] = "agent"
        /\ kind[q] = "review_pr" /\ pc[q] = "agent"
        /\ settings.extra_instructions = Directive
        /\ settings.require_security_review
        /\ ~settings.require_score_review
        /\ ~settings.enable_review_labels_security

ReachedAgent(r) ==
    \E i \in 1..Len(trace[r]) : trace[r][i][1] = "handle_request"

\* C7: with requests served one after another, whenever a find_bugs call
\* that reached the agent invocation returns to its caller (with its result,
\* or with an error string because the agent raised), extra_instructions is
\* the empty string and require_security_review is on.
C7_ResetOnEveryReturn ==
    \A r \in Requests :
        /\ Done(r) /\ kind[r] = "find_bugs" /\ ReachedAgent(r)
        /\ failedAt[r].step \in {"", "agent"}
        => /\ settings.extra_instructions = ""
           /\ settings.require_security_review = TRUE

\* C8: with requests served one after another, the pr_reviewer keys that
\* the agent observes during a review_pr or describe_pr invocation are what
\* they would be had no find_bugs request run earlier.
C8_NoLeakFromFindBugs ==
    \A r \in Requests :
        pc[r] = "agent" /\ kind[r] \in {"review_pr", "describe_pr"} =>
            settings = shadow

\* C9: concurrent requests race on the shared settings.  A find_bugs agent
\* call that is running loses the directive only through the reset of
\* another find_bugs whose agent call returns meanwhile; both kinds of
\* interference are reached (C9_Witness).
C9_DirectiveLostOnlyToReset ==
    [][\A r \in Requests :
        /\ kind[r] = "find_bugs" /\ pc[r] = "agent" /\ pc'[r] = "agent"
        /\ settings.extra_instructions = Directive
        /\ settings'.extra_instructions # Directive
        => \E q \in Requests \ {r} :
              /\ kind[q] = "find_bugs"
              /\ pc[q] = "agent" /\ pc'[q] = "progress1"
              /\ settings'.extra_instructions = ""]_vars

\* Two requests are in flight, a find_bugs agent call is running without its
\* directive, and earlier in the run a review_pr agent call ran under the
\* directive of a find_bugs whose agent call was running too.
C9_Witness ==
    /\ races = {"stale", "foreign"}
    /\ \E r \in Requests, q \in Requests :
          /\ r # q /\ InFlight(q)
          /\ kind[r] = "find_bugs" /\ pc[r] = "agent"
          /\ settings.extra_instructions = ""

\* The trace of a request that went through every step.
FullTrace(k) ==
    << <<"report_progress", 0, 1>>,
       <<"handle_request", IF k = "describe_pr" THEN "/describe" ELSE "/review">>,
       <<"report_progress", 1, 1>> >>

\* C10 as stated: every call that invoked the agent and returns a string to
\* the caller has reported progress 0-of-1 before the agent call and 1-of-1
\* after it, and invoked the agent exactly once.
C10_TwoReportsOnEveryReturn ==
    \A r \in Requests :
        Done(r) /\ ReachedAgent(r) /\ ret[r].tag = "string" =>
            trace[r] = FullTrace(kind[r])

\* C10 as amended: a request's reports and agent calls are always a prefix
\* of (0-of-1, agent call, 1-of-1); the agent call is running or has
\* returned only after the 0-of-1 report; a call in which no step raised has
\* made all three before returning; a call in which the agent call, a reset
\* write or the 1-of-1 report raised returns its error string after the
\* 0-of-1 report and the one agent call only.
C10_TwoReportsUnlessRaised ==
    \A r \in Requests :
        /\ Len(trace[r]) <= 3
        /\ trace[r] = SubSeq(FullTrace(kind[r]), 1, Len(trace[r]))
        /\ pc[r] \in {"agent", "progress1"} => Len(trace[r]) = 2
        /\ Done(r) /\ failedAt[r].step = "" => Len(trace[r]) = 3
        /\ Done(r) /\ failedAt[r].step \in {"agent", "reset", "progress1"} =>
              Len(trace[r]) = 2 /\ ret[r].tag = "string"
        /\ Done(r) /\ failedAt[r].step \in {"info", "progress0"} => trace[r] = << >>
        /\ Done(r) /\ failedAt[r].step \in {"PRAgent", "set"} => Len(trace[r]) = 1

\* A find_bugs call in which nothing raised has returned its result.
C10_Witness ==
    \E r \in Requests :
        /\ Done(r) /\ kind[r] = "find_bugs" /\ failedAt[r].step = ""
        /\ ret[r].tag = "string"
        /\ trace[r] = << <<"report_progress", 0, 1>>,
                         <<"handle_request", "/review">>,
                         <<"report_progress", 1, 1>> >>

\* The sections of t as the specification describes them: each recognised
\* heading with the text up to the next "##" or the end of t.
ClaimedSections(t) ==
    LET ms == Matches(t, 1) IN [n \in 1..Len(ms) |-> ms[n].whole]

\* C3: when the agent text holds one or more recognised headings, find_bugs
\* returns "# Bug Scan Results\n\n" followed by the matched sections joined
\* by a blank line, each section being the full text from its heading up to
\* the next "##" or the end of the text.
C3_ReturnsFullSections ==
    out.tag = "string" /\ ClaimedSections(text) # << >> =>
        out.val = <<"# Bug Scan Results\n\n">> \o Join(ClaimedSections(text), "\n\n")

\* A heading of the specification stands at position i of t: two or three
\* hashes, no more, then one of the three titles.
ExactHeadingAt(t, i) ==
    /\ \E a \in 1..Len(Headings) : LiteralAt(t, i, Headings[a])
    /\ i > 1 => t[i - 1] # "#"

\* C4: section matching is exact in hash count and case: an agent text with
\* no heading of exactly two or three hashes and one of the three titles
\* (so one whose only bug-like heading is "#### Bugs" or "## bugs") gets the
\* "No critical bugs or issues were identified" message followed by "Full
\* review content:" and the whole text.
C4_ExactHeadingsOnly ==
    /\ out.tag = "string"
    /\ text # << >>
    /\ \A i \in 1..Len(text) : ~ExactHeadingAt(text, i)
    => out.val = <<"# Bug Scan Results\n\n",
                   "No critical bugs or issues were identified in the scan.\n\n",
                   "Full review content:\n\n">> \o text

====
